---- MODULE Spec2Model ----
(***************************************************************************)
(* Model of grader_utils.ProcessWrapper (src/grader_utils/__init__.py):    *)
(* one wrapper object, the children it spawns, the waiter threads run()    *)
(* starts, and the caller that invokes run(), join() and send_signal().    *)
(*                                                                         *)
(* Python's None is the empty sequence << >>, a present value v is <<v>>.  *)
(* Time is counted in whole seconds.  Steps of the program take no time:   *)
(* time passes (Tick) only while every thread of the program is blocked in *)
(* a timed wait, a sleep or a wait for the child.  The operating system    *)
(* (child exit, death of group members, reaction to SIGTERM) is free to    *)
(* act between any two steps of the program.                               *)
(*                                                                         *)
(* A call of the caller ends in position "ret", where its result (the      *)
(* returned dict or the exception) can be observed; Resume takes the       *)
(* caller back to "idle", from where it makes its next call.               *)
(***************************************************************************)
EXTENDS Integers, Sequences, FiniteSets

\* ----------------------------------------------------------------- bounds
MaxRuns == 2
MaxTimeout == 1
MaxSleep == 1

\* ------------------------------------------------------ program constants
TIME_UNTIL_SIGKILL_SECS == 1
SIGTERM == 15
SIGKILL == 9

None == << >>
Some(v) == <<v>>

Gens == 1..MaxRuns
ExitCodes == {0, 1}

\* one entry of delayed_inputs: a number (sleep) or bytes (write)
SleepItem(n) == [kind |-> "num", secs |-> n]
BytesItem == [kind |-> "bytes", secs |-> 0]

DelayedInputChoices ==
  {<< >>} \cup {<<SleepItem(n)>> : n \in 1..MaxSleep}
          \cup {<<BytesItem, SleepItem(n)>> : n \in 1..MaxSleep}

\* the keyword arguments of __init__ that the supervision depends on
AllConfigs ==
  [command : {"empty", "missing", "ok"},
   timeout : {None} \cup {Some(t) : t \in 0..MaxTimeout},
   stdin : {"DEVNULL", "PIPE"},
   stdout : {"DEVNULL", "PIPE"},
   delayed_inputs : DelayedInputChoices,
   disable_communicate : BOOLEAN,
   check_pg_alive : BOOLEAN]

HasBytes(items) == \E k \in 1..Len(items) : items[k].kind = "bytes"

\* An option that cannot act is left at its default: stdin matters only
\* when bytes are staged, stdout only when communicate() is used, and no
\* option matters when Popen fails
Configs ==
  {c \in AllConfigs :
     /\ ~HasBytes(c.delayed_inputs) => c.stdin = "DEVNULL"
     /\ c.disable_communicate => c.stdout = "DEVNULL"
     /\ c.command # "ok" => /\ c.stdin = "DEVNULL" /\ c.stdout = "DEVNULL"
                            /\ c.delayed_inputs = << >>
                            /\ ~c.disable_communicate}

VARIABLES
  cfg,              \* the constructor's arguments
  process,          \* self.process: 0 is None, g the g-th Popen object
  thread,           \* self.thread: 0 is None, g the thread of the g-th run()
  child,            \* child[g]: the direct child of the g-th Popen
  group,            \* group[g]: the other member of that child's process group:
                    \* "none", "alive", "gone" (exited or ended by SIGTERM),
                    \* "killed" (ended by SIGKILL)
  tstate,           \* tstate[g]: position of the g-th thread in target()
  stdout_res,       \* self.stdout_res: None or <<g>>, output of child g
  exit_timeout, exit_force, exit_timeout_pg, exit_force_pg,
  pc,               \* position of the caller
  joinTimer,        \* seconds left of the caller's current timed wait
  sigs,             \* signals join() has sent to the group in this call
  last,             \* the call that has just ended and how it ended
  outcome,          \* the dict the join() that has just ended returned
  firstOutcome,     \* the dict of the first join() that returned in this run
  log,              \* the logging calls of the caller's current call
  hist              \* observations of the current join() call: the child
                    \* was running when the timeout elapsed, the child had
                    \* exited on its own before the timeout elapsed, the
                    \* thread was alive after SIGKILL

vars == <<cfg, process, thread, child, group, tstate, stdout_res,
          exit_timeout, exit_force, exit_timeout_pg, exit_force_pg,
          pc, joinTimer, sigs, last, outcome, firstOutcome, log, hist>>

flagVars == <<exit_timeout, exit_force, exit_timeout_pg, exit_force_pg>>
osVars == <<child, group>>
callVars == <<pc, joinTimer, sigs, last, outcome, firstOutcome, log, hist>>

NoChild == [st |-> "none", code |-> 0, early |-> FALSE]
NoThread == [st |-> "none", i |-> 0, left |-> 0, target |-> 0, broke |-> FALSE]
NoHist == [runningAtTimeout |-> FALSE, exitedEarly |-> FALSE, aliveAfterKill |-> FALSE]
NoOutcome == << >>
NoCall == [op |-> "none", raised |-> "none"]

\* __init__ (lines 54-91)
Init ==
  /\ cfg \in Configs
  /\ process = 0
  /\ thread = 0
  /\ child = [g \in Gens |-> NoChild]
  /\ group = [g \in Gens |-> "none"]
  /\ tstate = [g \in Gens |-> NoThread]
  /\ stdout_res = None
  /\ exit_timeout = FALSE
  /\ exit_force = FALSE
  /\ exit_timeout_pg = FALSE
  /\ exit_force_pg = FALSE
  /\ pc = "idle"
  /\ joinTimer = 0
  /\ sigs = << >>
  /\ last = NoCall
  /\ outcome = NoOutcome
  /\ firstOutcome = NoOutcome
  /\ log = {}
  /\ hist = NoHist

\* number of Popen objects created so far
Spawned == Cardinality({g \in Gens : child[g].st # "none"})

\* Thread.is_alive() of thread g
ThreadAlive(g) == g # 0 /\ tstate[g].st \in {"feed", "sleep", "wait", "store"}

\* Popen.returncode of the g-th Popen: set when a wait has reaped the child
Returncode(g) == IF g # 0 /\ child[g].st = "reaped" THEN Some(child[g].code) ELSE None

\* True when some process of the group led by child g is in the process
\* table: the child itself until it is reaped, or another group member
GroupExists(g) ==
  g # 0 /\ (child[g].st \in {"running", "zombie"} \/ group[g] = "alive")

\* a call of the caller ends: its result is in last, outcome and log
EndCall(op, e) ==
  /\ pc' = "ret"
  /\ last' = [op |-> op, raised |-> e]

\* the caller goes on after a call
Resume ==
  /\ pc = "ret"
  /\ pc' = "idle"
  /\ last' = NoCall
  /\ outcome' = NoOutcome
  /\ sigs' = << >>
  /\ hist' = NoHist
  /\ log' = {}
  /\ joinTimer' = 0
  /\ UNCHANGED <<cfg, process, thread, osVars, tstate, stdout_res, flagVars, firstOutcome>>

\* ------------------------------------------------------------------ run()
\* the failure of Popen is swallowed and the thread started all the same
RunFailStartsThread ==
  /\ pc = "idle"
  /\ cfg.command # "ok"
  /\ EndCall("run", "none")
  /\ log' = IF cfg.command = "missing" THEN {"error:popen"} ELSE {}
  /\ thread' = 1
  /\ tstate' = [tstate EXCEPT ![1] = [NoThread EXCEPT !.st = "crashed"]]
  /\ UNCHANGED <<cfg, process, osVars, stdout_res, flagVars,
                 joinTimer, sigs, outcome, firstOutcome, hist>>

\* Popen raises: IndexError for an empty command vector (not an OSError, so
\* nothing is logged), FileNotFoundError (an OSError) for a missing
\* executable.  Nothing of the wrapper changes and no thread is started.
RunFail ==
  /\ pc = "idle"
  /\ cfg.command # "ok"
  /\ EndCall("run", IF cfg.command = "empty" THEN "IndexError" ELSE "OSError")
  /\ log' = IF cfg.command = "missing" THEN {"error:popen"} ELSE {}
  /\ UNCHANGED <<cfg, process, thread, osVars, tstate, stdout_res, flagVars,
                 joinTimer, sigs, outcome, firstOutcome, hist>>

\* What stays observable of a child, a group and a thread once
\* self.process and self.thread name their successors: the program can no
\* longer read the child's status, probe or signal its group or test the
\* thread, so only whether the child runs and where the thread stands
\* is kept.
OldChild(c) == [c EXCEPT !.code = 0, !.early = FALSE]
OldThread(t) == IF t.st \in {"done", "crashed"} THEN [NoThread EXCEPT !.st = "done"]
                ELSE [t EXCEPT !.broke = FALSE]

\* the thread has ended: only the way it ended is kept
Ended(g, how) ==
  IF g = thread THEN [NoThread EXCEPT !.st = how, !.broke = tstate[g].broke]
  ELSE OldThread([NoThread EXCEPT !.st = how])

\* Popen succeeds (lines 120-127): the child leads a new session (and
\* process group), it may have put another process into that group; the
\* thread is created and started.  self.process and self.thread are
\* overwritten, whatever they held.
Spawn ==
  /\ pc = "idle"
  /\ cfg.command = "ok"
  /\ Spawned < MaxRuns
  /\ LET g == Spawned + 1 IN
       /\ process' = g
       /\ thread' = g
       /\ child' = [h \in Gens |->
                      IF h = g THEN [st |-> "running", code |-> 0, early |-> FALSE]
                      ELSE OldChild(child[h])]
       /\ \E m \in {"none", "alive"} :
            group' = [h \in Gens |-> IF h = g THEN m ELSE "none"]
       /\ tstate' = [h \in Gens |->
                       IF h = g THEN [NoThread EXCEPT !.st = "feed", !.i = 1]
                       ELSE OldThread(tstate[h])]
  /\ EndCall("run", "none")
  /\ firstOutcome' = NoOutcome
  /\ UNCHANGED <<cfg, stdout_res, flagVars, joinTimer, sigs, outcome, log, hist>>

\* the first successful run() of the wrapper
RunOk == process = 0 /\ Spawn

\* run() is called again on a wrapper that has already spawned a child
Rerun == process # 0 /\ Spawn

\* ----------------------------------------------------- target(), thread g
Item(g) == cfg.delayed_inputs[tstate[g].i]
InLoop(g) == tstate[g].st = "feed" /\ tstate[g].i <= Len(cfg.delayed_inputs)

\* line 103-104: a number starts a sleep
ThreadSleep(g) ==
  /\ InLoop(g) /\ Item(g).kind = "num"
  /\ tstate' = [tstate EXCEPT ![g].st = "sleep", ![g].left = Item(g).secs]
  /\ UNCHANGED <<cfg, process, thread, osVars, stdout_res, flagVars, callVars>>

\* time.sleep returns once its time has passed
ThreadWake(g) ==
  /\ tstate[g].st = "sleep" /\ tstate[g].left = 0
  /\ tstate' = [tstate EXCEPT ![g].st = "feed", ![g].i = @ + 1]
  /\ UNCHANGED <<cfg, process, thread, osVars, stdout_res, flagVars, callVars>>

\* after a failed write the loop goes on with the next item
ThreadWriteNoBreak(g) ==
  /\ InLoop(g) /\ Item(g).kind = "bytes"
  /\ IF cfg.stdin # "PIPE"
       THEN tstate' = [tstate EXCEPT ![g] = Ended(g, "crashed")]
       ELSE \E ok \in BOOLEAN :
              tstate' = IF ok
                          THEN [tstate EXCEPT ![g].i = @ + 1]
                          ELSE [tstate EXCEPT ![g].i = @ + 1,
                                              ![g].broke = (g = thread)]
  /\ UNCHANGED <<cfg, process, thread, osVars, stdout_res, flagVars, callVars>>

\* line 105-112: bytes are written to self.process.stdin, which is None
\* unless stdin is PIPE (AttributeError ends the thread); an IOError of the
\* write is logged (lg.info, recorded as broke) and ends the loop
ThreadWrite(g) ==
  /\ InLoop(g) /\ Item(g).kind = "bytes"
  /\ IF cfg.stdin # "PIPE"
       THEN tstate' = [tstate EXCEPT ![g] = Ended(g, "crashed")]
       ELSE \E ok \in BOOLEAN :
              tstate' = IF ok
                          THEN [tstate EXCEPT ![g].i = @ + 1]
                          ELSE [tstate EXCEPT ![g].i = Len(cfg.delayed_inputs) + 1,
                                              ![g].broke = (g = thread)]
  /\ UNCHANGED <<cfg, process, thread, osVars, stdout_res, flagVars, callVars>>

\* line 113-117: after the loop the thread calls wait() or communicate() on
\* the Popen object self.process names at that moment
ThreadBeginWait(g) ==
  /\ tstate[g].st = "feed" /\ tstate[g].i > Len(cfg.delayed_inputs)
  /\ tstate' = [tstate EXCEPT ![g].st = "wait", ![g].target = process]
  /\ UNCHANGED <<cfg, process, thread, osVars, stdout_res, flagVars, callVars>>

\* wait()/communicate() returns once the child has exited: the child is
\* reaped and Popen.returncode set; after wait() the thread ends
ThreadReap(g) ==
  /\ tstate[g].st = "wait"
  /\ child[tstate[g].target].st \in {"zombie", "reaped"}
  /\ child' = [child EXCEPT ![tstate[g].target].st = "reaped"]
  /\ tstate' = IF cfg.disable_communicate
                 THEN [tstate EXCEPT ![g] = Ended(g, "done")]
                 ELSE [tstate EXCEPT ![g].st = "store"]
  /\ UNCHANGED <<cfg, process, thread, group, stdout_res, flagVars, callVars>>

\* line 116: the result of communicate() is stored and the thread ends;
\* stderr is left at its default DEVNULL, so stderr_res stays None
ThreadStore(g) ==
  /\ tstate[g].st = "store"
  /\ stdout_res' = IF cfg.stdout = "PIPE" THEN Some(tstate[g].target) ELSE None
  /\ tstate' = [tstate EXCEPT ![g] = Ended(g, "done")]
  /\ UNCHANGED <<cfg, process, thread, osVars, flagVars, callVars>>

ThreadStepEnabled(g) ==
  \/ tstate[g].st \in {"feed", "store"}
  \/ tstate[g].st = "sleep" /\ tstate[g].left = 0
  \/ tstate[g].st = "wait" /\ child[tstate[g].target].st \in {"zombie", "reaped"}

\* ------------------------------------------------- the operating system
\* the timeout of the join() in progress has not elapsed (with timeout 0
\* it has elapsed as soon as join() is called)
BeforeTimeout ==
  \/ pc \in {"idle", "ret"} /\ cfg.timeout # Some(0)
  \/ pc = "j135" /\ (cfg.timeout = None \/ joinTimer > 0)

\* the child exits on its own
ChildExit(g) ==
  /\ child[g].st = "running"
  /\ \E c \in ExitCodes :
       child' = [child EXCEPT ![g] =
                   IF g = process
                     THEN [st |-> "zombie", code |-> c, early |-> BeforeTimeout]
                     ELSE OldChild([st |-> "zombie", code |-> c, early |-> FALSE])]
  /\ UNCHANGED <<cfg, process, thread, group, tstate, stdout_res, flagVars, callVars>>

\* the other group member exits on its own
GroupExit(g) ==
  /\ group[g] = "alive"
  /\ group' = [group EXCEPT ![g] = "gone"]
  /\ UNCHANGED <<cfg, process, thread, child, tstate, stdout_res, flagVars, callVars>>

\* ----------------------------------------------------------------- join()
\* is_alive() (lines 181-183): the pid of self.process is among the process
\* group ids that ps lists
is_alive == GroupExists(process)

\* the group probe is used whatever check_pg_alive says
aliveProbeOnly == is_alive

\* the thread is asked whatever check_pg_alive says
aliveThreadOnly == ThreadAlive(thread)

\* line 136: the liveness test join() uses
alive == IF cfg.check_pg_alive THEN is_alive ELSE ThreadAlive(thread)

\* lines 154-162: the dict join() returns
Outcome ==
  [returncode |-> Returncode(process),
   stdout |-> stdout_res,
   stderr |-> None,
   timeout |-> exit_timeout,
   killed |-> exit_force,
   timeout_pg |-> exit_timeout_pg,
   killed_pg |-> exit_force_pg]

\* join() returns its dict to the caller (the returning step changes none
\* of the fields the dict is built from)
Return ==
  /\ EndCall("join", "none")
  /\ outcome' = Some(Outcome)
  /\ firstOutcome' = IF firstOutcome = NoOutcome THEN Some(Outcome) ELSE firstOutcome

\* join() ends with an exception
Raise(e) ==
  /\ EndCall("join", e)
  /\ UNCHANGED <<outcome, firstOutcome>>

\* a signal reaches a process: SIGKILL ends it, SIGTERM ends it unless the
\* process ignores or handles it
Fates(sig) == IF sig = SIGKILL THEN {TRUE} ELSE BOOLEAN

\* the direct child of self.process gets a signal; a zombie is not affected
SignalChild(sig) ==
  IF child[process].st = "running"
    THEN \E dies \in Fates(sig) :
           child' = IF dies
                      THEN [child EXCEPT ![process] =
                              [st |-> "zombie", code |-> 0 - sig, early |-> FALSE]]
                      ELSE child
    ELSE child' = child

\* os.killpg(pid, sig): every member of the group gets the signal
Killpg(sig) ==
  /\ SignalChild(sig)
  /\ IF group[process] = "alive"
       THEN \E dies \in Fates(sig) :
              group' = IF dies
                         THEN [group EXCEPT ![process] =
                                 IF sig = SIGKILL THEN "killed" ELSE "gone"]
                         ELSE group
       ELSE group' = group

\* join() is called; with no thread, None.join raises AttributeError.
\* Line 135 starts the timed wait for the thread.
JoinCall ==
  /\ pc = "idle"
  /\ IF thread = 0
       THEN /\ Raise("AttributeError")
            /\ UNCHANGED joinTimer
       ELSE /\ pc' = "j135"
            /\ joinTimer' = IF cfg.timeout = None THEN 0 ELSE cfg.timeout[1]
            /\ UNCHANGED <<last, outcome, firstOutcome>>
  /\ UNCHANGED <<cfg, process, thread, osVars, tstate, stdout_res, flagVars,
                 sigs, log, hist>>

\* the wait of line 135 ignores the timeout
WaitOver135NoTimeout == pc = "j135" /\ ~ThreadAlive(thread)

\* the wait of line 135 is over when the thread has ended or the timeout
\* has elapsed
WaitOver135 ==
  pc = "j135" /\ (~ThreadAlive(thread) \/ (cfg.timeout # None /\ joinTimer = 0))

\* lines 135-137: the wait ends and exit_timeout is set
Join135 ==
  /\ WaitOver135
  /\ exit_timeout' = ThreadAlive(thread)
  /\ hist' = [hist EXCEPT
                !.runningAtTimeout = /\ child[process].st = "running"
                                     /\ cfg.timeout # None /\ joinTimer = 0,
                !.exitedEarly = child[process].early]
  /\ pc' = "j138"
  /\ UNCHANGED <<cfg, process, thread, osVars, tstate, stdout_res, exit_force,
                 exit_timeout_pg, exit_force_pg, joinTimer, sigs, last,
                 outcome, firstOutcome, log>>

\* lines 138-140: first liveness test; when it fails join() returns
Join138 ==
  /\ pc = "j138"
  /\ IF alive
       THEN /\ exit_timeout_pg' = cfg.check_pg_alive
            /\ log' = log \cup {"info:terminating"}
            /\ pc' = "j141"
            /\ UNCHANGED <<last, outcome, firstOutcome>>
       ELSE /\ Return
            /\ UNCHANGED <<exit_timeout_pg, log>>
  /\ UNCHANGED <<cfg, process, thread, osVars, tstate, stdout_res, exit_timeout,
                 exit_force, exit_force_pg, joinTimer, sigs, hist>>

\* SIGKILL is sent where SIGTERM belongs
Join141Kill ==
  /\ pc = "j141"
  /\ IF GroupExists(process)
       THEN /\ Killpg(SIGKILL)
            /\ sigs' = Append(sigs, SIGKILL)
            /\ joinTimer' = TIME_UNTIL_SIGKILL_SECS
            /\ pc' = "j142"
            /\ UNCHANGED <<last, outcome, firstOutcome>>
       ELSE /\ Raise("ProcessLookupError")
            /\ UNCHANGED <<osVars, sigs, joinTimer>>
  /\ UNCHANGED <<cfg, process, thread, tstate, stdout_res, flagVars, hist, log>>

\* line 141: SIGTERM to the group (ProcessLookupError when the group has
\* vanished since the test); line 142 starts the wait of the grace period
Join141 ==
  /\ pc = "j141"
  /\ IF GroupExists(process)
       THEN /\ Killpg(SIGTERM)
            /\ sigs' = Append(sigs, SIGTERM)
            /\ joinTimer' = TIME_UNTIL_SIGKILL_SECS
            /\ pc' = "j142"
            /\ UNCHANGED <<last, outcome, firstOutcome>>
       ELSE /\ Raise("ProcessLookupError")
            /\ UNCHANGED <<osVars, sigs, joinTimer>>
  /\ UNCHANGED <<cfg, process, thread, tstate, stdout_res, flagVars, hist, log>>

\* the wait of line 142 is over when the thread has ended or the grace
\* period has elapsed
WaitOver142 == pc = "j142" /\ (~ThreadAlive(thread) \/ joinTimer = 0)

\* lines 142-143: the wait ends and exit_force is set
Join142 ==
  /\ WaitOver142
  /\ exit_force' = ThreadAlive(thread)
  /\ pc' = "j144"
  /\ UNCHANGED <<cfg, process, thread, osVars, tstate, stdout_res, exit_timeout,
                 exit_timeout_pg, exit_force_pg, joinTimer, sigs, last,
                 outcome, firstOutcome, log, hist>>

\* lines 144-148: second liveness test; when it fails join() returns
Join144 ==
  /\ pc = "j144"
  /\ IF alive
       THEN /\ exit_force_pg' = cfg.check_pg_alive
            /\ log' = log \cup {"warning:still_alive"}
            /\ pc' = "j149"
            /\ UNCHANGED <<last, outcome, firstOutcome>>
       ELSE /\ Return
            /\ UNCHANGED <<exit_force_pg, log>>
  /\ UNCHANGED <<cfg, process, thread, osVars, tstate, stdout_res, exit_timeout,
                 exit_force, exit_timeout_pg, joinTimer, sigs, hist>>

\* line 149: SIGKILL to the group
Join149 ==
  /\ pc = "j149"
  /\ IF GroupExists(process)
       THEN /\ Killpg(SIGKILL)
            /\ sigs' = Append(sigs, SIGKILL)
            /\ pc' = "j150"
            /\ UNCHANGED <<last, outcome, firstOutcome>>
       ELSE /\ Raise("ProcessLookupError")
            /\ UNCHANGED <<osVars, sigs>>
  /\ UNCHANGED <<cfg, process, thread, tstate, stdout_res, flagVars, joinTimer,
                 hist, log>>

\* lines 150-162: with the thread still alive the message of lg.error is
\* formatted first; "{self.process.pid}".format(pid) has no keyword self
\* and raises KeyError, so nothing is logged and nothing returned
Join150 ==
  /\ pc = "j150"
  /\ IF ThreadAlive(thread)
       THEN Raise("KeyError")
       ELSE Return
  /\ hist' = [hist EXCEPT !.aliveAfterKill = ThreadAlive(thread)]
  /\ UNCHANGED <<cfg, process, thread, osVars, tstate, stdout_res, flagVars,
                 joinTimer, sigs, log>>

CallerStepEnabled ==
  \/ pc \in {"j138", "j141", "j144", "j149", "j150", "ret"}
  \/ WaitOver135
  \/ WaitOver142

\* ---------------------------------------------------------- send_signal()
Signals == {SIGTERM, SIGKILL}

\* lines 169-174.  With the thread alive the signal goes to the direct
\* child; otherwise the warning's arguments are evaluated first and
\* self.process.pd raises AttributeError (Popen has no attribute pd), so
\* nothing is logged.  Without a thread None.is_alive raises.
send_signal(sig) ==
  /\ pc = "idle"
  /\ IF ThreadAlive(thread)
       THEN /\ SignalChild(sig)
            /\ EndCall("send_signal", "none")
       ELSE /\ child' = child
            /\ EndCall("send_signal", "AttributeError")
  /\ UNCHANGED <<cfg, process, thread, group, tstate, stdout_res, flagVars,
                 joinTimer, sigs, outcome, firstOutcome, log, hist>>

\* ------------------------------------------------------------------- time
Waiting == pc \in {"j135", "j142"} /\ joinTimer > 0

\* one second passes: only while no step of the program is enabled
Tick ==
  /\ ~CallerStepEnabled
  /\ \A g \in Gens : ~ThreadStepEnabled(g)
  /\ Waiting \/ \E g \in Gens : tstate[g].st = "sleep"
  /\ joinTimer' = IF Waiting THEN joinTimer - 1 ELSE joinTimer
  /\ tstate' = [g \in Gens |->
                  IF tstate[g].st = "sleep"
                    THEN [tstate[g] EXCEPT !.left = @ - 1]
                    ELSE tstate[g]]
  /\ UNCHANGED <<cfg, process, thread, osVars, stdout_res, flagVars, pc, sigs,
                 last, outcome, firstOutcome, log, hist>>

\* ------------------------------------------------------------------ model
ThreadStep(g) ==
  \/ ThreadSleep(g)
  \/ ThreadWake(g)
  \/ ThreadWrite(g)
  \/ ThreadBeginWait(g)
  \/ ThreadReap(g)
  \/ ThreadStore(g)

Next ==
  \/ RunFail
  \/ RunOk
  \/ JoinCall
  \/ Join135
  \/ Join138
  \/ Join141
  \/ Join142
  \/ Join144
  \/ Join149
  \/ Join150
  \/ \E sig \in Signals : send_signal(sig)
  \/ Resume
  \/ \E g \in Gens : ThreadStep(g)
  \/ \E g \in Gens : ChildExit(g)
  \/ \E g \in Gens : GroupExit(g)
  \/ Tick

Spec == Init /\ [][Next]_vars

\* the caller may also call run() again
NextRerun == Next \/ Rerun

SpecRerun == Init /\ [][NextRerun]_vars

TypeOK ==
  /\ cfg \in Configs
  /\ process \in 0..MaxRuns
  /\ thread \in 0..MaxRuns
  /\ pc \in {"idle", "j135", "j138", "j141", "j142", "j144", "j149", "j150", "ret"}
  /\ joinTimer \in 0..(IF MaxTimeout > TIME_UNTIL_SIGKILL_SECS
                         THEN MaxTimeout ELSE TIME_UNTIL_SIGKILL_SECS)
  /\ \A f \in {exit_timeout, exit_force, exit_timeout_pg, exit_force_pg} : f \in BOOLEAN

\* the steps of a join() in progress
JoinStep ==
  \/ Join135
  \/ Join138
  \/ Join141
  \/ Join142
  \/ Join144
  \/ Join149
  \/ Join150

\* Fair scheduling: a join() in progress goes on, every thread goes on, and
\* time goes on.  Nothing obliges a child or a group member to exit, nor
\* the caller to make a further call.
SpecFair ==
  /\ Init /\ [][Next]_vars
  /\ WF_vars(JoinStep)
  /\ \A g \in Gens : WF_vars(ThreadStep(g))
  /\ WF_vars(Tick)

\* ================================================================ claims
Returned == pc = "ret" /\ last = [op |-> "join", raised |-> "none"]
JoinEnded == pc = "ret" /\ last.op = "join"
Sent(sig) == \E k \in 1..Len(sigs) : sigs[k] = sig
\* no thread has died of the AttributeError of line 107
NoCrash == \A g \in Gens : tstate[g].st # "crashed"
AllFlagsFalse(o) == ~o.timeout /\ ~o.killed /\ ~o.timeout_pg /\ ~o.killed_pg

\* C1: when the child has exited on its own before the timeout elapsed
\* (and no other process was ever in its group), the dict join() returns
\* has timeout, killed, timeout_pg and killed_pg false and returncode equal
\* to the child's exit code.
C1_ExitBeforeTimeout ==
  (Returned /\ hist.exitedEarly /\ group[process] = "none")
    => /\ AllFlagsFalse(outcome[1])
       /\ outcome[1].returncode = Some(child[process].code)

\* C2: when the child was still running as the timeout elapsed in join()
\* and neither exited on its own nor ended on SIGTERM, the dict join()
\* returns has timeout and killed true; with group checking enabled and
\* another group member that also outlived SIGTERM, timeout_pg and
\* killed_pg are true as well.
C2_TimeoutAndKilled ==
  (Returned /\ hist.runningAtTimeout
     /\ (child[process].st = "running" \/ child[process].code = 0 - SIGKILL))
    => /\ outcome[1].timeout /\ outcome[1].killed
       /\ (cfg.check_pg_alive /\ group[process] = "killed")
            => (outcome[1].timeout_pg /\ outcome[1].killed_pg)

\* C3: when the thread is still alive right after SIGKILL was sent, join()
\* logs the condition and returns a dict; it raises nothing.
C3_ExhaustionReturns ==
  (JoinEnded /\ hist.aliveAfterKill)
    => /\ last.raised = "none"
       /\ outcome # NoOutcome
       /\ "error:alive_after_sigkill" \in log

\* C4: within one join() call SIGKILL is sent to the group only after
\* SIGTERM has been sent to it, whatever the timeout.
C4_TermBeforeKill ==
  sigs \in {<< >>, <<SIGTERM>>, <<SIGTERM, SIGKILL>>}

C4_Witness ==
  pc = "j150" /\ sigs = <<SIGTERM, SIGKILL>> /\ cfg.timeout = Some(0)

\* C5: when join() has sent SIGKILL, the whole grace period of
\* TIME_UNTIL_SIGKILL_SECS has passed since it sent SIGTERM (nothing of
\* the grace period is left), also when the direct child had exited and
\* only other group members were alive.  (Stated for threads that have not
\* died of an exception.)
C5_GraceHonored ==
  (Sent(SIGKILL) /\ NoCrash) => joinTimer = 0

\* C6: send_signal() called when the thread has finished (the child has
\* exited and been waited for) logs a warning, raises nothing, delivers no
\* signal and changes no field of the dict.
C6_DeadSignalNoOp ==
  [][(pc = "idle" /\ pc' = "ret" /\ last'.op = "send_signal"
        /\ thread # 0 /\ tstate[thread].st = "done")
       => /\ last'.raised = "none"
          /\ "warning:already_dead" \in log'
          /\ child' = child
          /\ Outcome' = Outcome]_vars

\* C7: once a join() has returned a dict, every later join() of the same
\* run returns an equal dict.  (Stated for threads that have not died of an
\* exception.)
C7_JoinIdempotent ==
  (Returned /\ firstOutcome # NoOutcome /\ NoCrash) => outcome = firstOutcome

\* C8: once the process is spawned, an escalation flag that is true stays
\* true in every step.  (Stated for threads that have not died of an
\* exception.)
C8_FlagsMonotonic ==
  [][(process # 0 /\ NoCrash) =>
       /\ exit_timeout => exit_timeout'
       /\ exit_force => exit_force'
       /\ exit_timeout_pg => exit_timeout_pg'
       /\ exit_force_pg => exit_force_pg']_vars

\* C9: with check_pg_alive false, exit_timeout_pg and exit_force_pg are
\* false in every state and in every returned dict, and join() goes on to
\* SIGTERM (line 138) and to SIGKILL (line 144) exactly when the thread is
\* alive, whatever the state of the process group.
C9_NoGroupWithoutCheck ==
  /\ [](~cfg.check_pg_alive =>
          /\ ~exit_timeout_pg /\ ~exit_force_pg
          /\ outcome # NoOutcome => (~outcome[1].timeout_pg /\ ~outcome[1].killed_pg))
  /\ [][~cfg.check_pg_alive =>
          /\ (pc = "j138" /\ pc' # pc) => (pc' = "j141" <=> ThreadAlive(thread))
          /\ (pc = "j144" /\ pc' # pc) => (pc' = "j149" <=> ThreadAlive(thread))]_vars

C9_Witness ==
  /\ ~cfg.check_pg_alive /\ Returned /\ sigs = <<SIGTERM, SIGKILL>>
  /\ group[process] = "killed"

\* C10: when Popen cannot spawn the command (empty vector or missing
\* executable), run() ends with the exception, no child and no thread
\* exist, and self.thread and self.process are still None.
C10_SpawnFailurePropagates ==
  (pc = "ret" /\ last.op = "run" /\ cfg.command # "ok")
    => /\ last.raised # "none"
       /\ thread = 0 /\ process = 0
       /\ Spawned = 0
       /\ \A g \in Gens : tstate[g] = NoThread

C10_Witness ==
  pc = "ret" /\ last = [op |-> "run", raised |-> "OSError"] /\ thread = 0

\* C11: every dict join() returns is built after the thread has finished
\* with the child: the thread is no longer alive and returncode is the
\* child's exit status, not None.
C11_OutcomeAfterWaiter ==
  Returned => /\ ~ThreadAlive(thread)
              /\ outcome[1].returncode = Some(child[process].code)
              /\ child[process].st = "reaped"

\* C12: after any sequence of run() and join() calls at most one thread
\* of the wrapper is alive, and every child that is still in the process
\* table is the one self.process names.
C12_OneWaiterOneChild ==
  /\ Cardinality({g \in Gens : ThreadAlive(g)}) <= 1
  /\ \A g \in Gens : child[g].st \in {"running", "zombie"} => g = process

InJoin == pc \in {"j135", "j138", "j141", "j142", "j144", "j149", "j150"}

PastLoop(g) ==
  \/ tstate[g].st \in {"wait", "store", "done"}
  \/ tstate[g].st = "feed" /\ tstate[g].i > Len(cfg.delayed_inputs)

\* C14: once a write to the child's stdin has failed with IOError, the
\* thread is past the loop over delayed_inputs (no later sleep or write),
\* it goes on to wait for the child, and a dict join() returns carries the
\* child's exit status.
C14_WriteFailureAbandons ==
  /\ [](\A g \in Gens : tstate[g].broke => PastLoop(g))
  /\ []((Returned /\ tstate[thread].broke)
          => outcome[1].returncode = Some(child[process].code))
  /\ \A g \in Gens :
       tstate[g].broke ~> (tstate[g].st \in {"wait", "store", "done"})

C14_Witness ==
  /\ Returned /\ tstate[thread].broke /\ tstate[thread].st = "done"
  /\ outcome[1].returncode = Some(child[process].code)
  /\ Len(cfg.delayed_inputs) = 2

\* C15: a dict join() returns with timeout true is returned by a call
\* that has sent SIGTERM to the process group.  (Stated for threads that
\* have not died of an exception.)
C15_TimeoutMeansTerm ==
  (Returned /\ NoCrash /\ outcome[1].timeout) => Sent(SIGTERM)

\* C16: a dict join() returns with killed true is returned by a call that
\* has sent SIGKILL to the process group.  (Stated for threads that have
\* not died of an exception.)
C16_KilledMeansKill ==
  (Returned /\ NoCrash /\ outcome[1].killed) => Sent(SIGKILL)

\* the thread has waited for the child and ended
WaiterDone == thread # 0 /\ tstate[thread].st = "done"

\* C17 as stated: when the thread has completed as the wait of line 135
\* ends, exit_timeout is set to false and join() returns its dict without
\* sending a signal, with check_pg_alive true or false.
C17_NoSignalAfterCompletion ==
  /\ [][(pc = "j135" /\ pc' = "j138" /\ WaiterDone) => ~exit_timeout']_vars
  /\ [][(pc = "j138" /\ pc' # pc /\ WaiterDone /\ ~exit_timeout)
          => (pc' = "ret" /\ last'.raised = "none" /\ sigs' = << >>)]_vars

\* C17, amended: when the thread has completed as the wait of line 135
\* ends, exit_timeout is set to false; join() returns its dict without
\* sending a signal when check_pg_alive is false or no other member of the
\* child's group is alive; with check_pg_alive true and another member
\* alive it sets exit_timeout_pg and goes on to send SIGTERM to the group.
C17_NoSignalUnlessGroupAlive ==
  /\ [][(pc = "j135" /\ pc' = "j138" /\ WaiterDone) => ~exit_timeout']_vars
  /\ [][(pc = "j138" /\ pc' # pc /\ WaiterDone /\ ~exit_timeout)
          => IF cfg.check_pg_alive /\ group[process] = "alive"
               THEN pc' = "j141" /\ exit_timeout_pg' /\ sigs' = << >>
               ELSE pc' = "ret" /\ last'.raised = "none" /\ sigs' = << >>]_vars

C17_Witness ==
  /\ Returned /\ WaiterDone /\ hist.exitedEarly
  /\ ~outcome[1].timeout /\ outcome[1].timeout_pg /\ sigs = <<SIGTERM>>

\* C18: the thread completes as soon as the child has exited, pending
\* delayed_inputs or not: no time passes while the child has exited and
\* the thread is still alive.
C18_WaiterIndependentOfFeeder ==
  [][Tick => ~(process # 0 /\ child[process].st = "zombie"
                 /\ ThreadAlive(thread))]_vars

\* C19: with stdin not a pipe and bytes among delayed_inputs the
\* supervision is as without them: a thread that has ended has waited for
\* the child, a dict join() returns carries the child's exit status, and
\* a join() that found the child running as the timeout elapsed has sent
\* SIGTERM.
C19_StagedInputsHarmless ==
  (cfg.stdin # "PIPE" /\ HasBytes(cfg.delayed_inputs))
    => /\ (thread # 0 /\ ~ThreadAlive(thread)) => child[process].st = "reaped"
       /\ Returned => outcome[1].returncode = Some(child[process].code)
       /\ (Returned /\ hist.runningAtTimeout) => Sent(SIGTERM)

\* C20: in every dict join() returns, after any number of join() calls,
\* killed implies timeout and killed_pg implies timeout_pg.  (Stated for
\* threads that have not died of an exception.)
C20_KilledImpliesTimeout ==
  (Returned /\ NoCrash)
    => /\ outcome[1].killed => outcome[1].timeout
       /\ outcome[1].killed_pg => outcome[1].timeout_pg

====
